---- MODULE Spec2Model ----
(***************************************************************************)
(* Automation rule engine of obsidian-project-manager-pro                  *)
(* (src/core/AutomationEngine.ts): rule registry, trigger dispatch with    *)
(* its await points, condition evaluation, action execution and the daily  *)
(* scheduler.                                                              *)
(***************************************************************************)
EXTENDS Integers, Sequences, FiniteSets, TLC

VARIABLES
    isEnabled,      \* AutomationEngine.isEnabled
    rules,          \* AutomationEngine.rules: the Map, as its entries in insertion order
    disp,           \* one record per triggerAutomation call in flight (its locals)
    trace,          \* per call: the condition evaluations and action executions it performed
    startInfo,      \* per call: the engine state observed when the call started
    clock,          \* local wall clock, in ticks since midnight of day 0
    timers,         \* pending setTimeout / setInterval timers
    issued,         \* the runDailyAutomation calls made by timers, in order
    chains,         \* per setupDailySchedule call: the instant it was made
    lastSetEnabled, \* the value most recently stored by the constructor / setEnabled
    lastSet,        \* per rule id: the rule most recently passed to rules.set
    replaced,       \* per rule id: whether that call found the id registered
                    \* (recorded by the registry specification only)
    call,           \* the latest direct call of a pure method: its name and arguments
    result,         \* what that call returned
    initialized,    \* whether initialize() has been called
    errorLog,       \* ErrorHandler.errorLog: the logged errors, by their serial numbers
    errorCount      \* the errors logged since the log was last cleared (the serial
                    \* number of the latest)

vars == <<isEnabled, rules, disp, trace, startInfo, clock, timers, issued,
          chains, lastSetEnabled, lastSet, replaced, call, result, initialized,
          errorLog, errorCount>>

-----------------------------------------------------------------------------
(* Strings are sequences of one-character strings, so that split('.') and  *)
(* includes() are computed rather than assumed.                            *)

s_task == <<"t", "a", "s", "k">>
s_priority == <<"p", "r", "i", "o">>
s_high == <<"h", "i">>
s_low == <<"l", "o">>
s_status == <<"s", "t">>
s_done == <<"d", "o", "n", "e">>
s_dueDate == <<"d", "u", "e">>
s_date == <<"d", "a", "t", "e">>
s_type == <<"t", "y", "p", "e">>
s_daily_check == <<"d", "c">>
s_file == <<"f", "i", "l", "e">>
s_dot == <<".">>

\* 'task.priority'
s_task_priority == s_task \o s_dot \o s_priority

(* ParameterValue | undefined | object, as a tagged variant *)
Undefined == [t |-> "undefined"]
Null == [t |-> "null"]
StrV(s) == [t |-> "string", s |-> s]
NumV(n) == [t |-> "number", n |-> n]
BoolV(b) == [t |-> "boolean", b |-> b]
ObjV(m) == [t |-> "object", m |-> m]

\* the marker of a raised exception, where a value was expected
Thrown == [t |-> "THROWN"]

EmptyMap == [k \in {} |-> Undefined]

\* fieldValue === conditionValue (objects compare by reference: a context
\* object is never the same reference as a rule's literal)
StrictEquals(a, b) ==
    /\ a.t = b.t
    /\ CASE a.t = "string" -> a.s = b.s
         [] a.t = "number" -> a.n = b.n
         [] a.t = "boolean" -> a.b = b.b
         [] a.t = "object" -> FALSE
         [] OTHER -> TRUE

\* !value
Falsy(v) ==
    \/ v.t \in {"undefined", "null"}
    \/ v.t = "string" /\ Len(v.s) = 0
    \/ v.t = "number" /\ v.n = 0
    \/ v.t = "boolean" /\ ~v.b

\* String.prototype.includes
Includes(s, sub) ==
    \E i \in 0..(Len(s) - Len(sub)) : SubSeq(s, i + 1, i + Len(sub)) = sub

\* String.prototype.split(sep) for a one-character separator
RECURSIVE SplitFrom(_, _, _)
SplitFrom(s, sep, cur) ==
    IF s = <<>> THEN <<cur>>
    ELSE IF Head(s) = sep THEN <<cur>> \o SplitFrom(Tail(s), sep, <<>>)
    ELSE SplitFrom(Tail(s), sep, Append(cur, Head(s)))

Split(s, sep) == SplitFrom(s, sep, <<>>)

s_length == <<"l", "e", "n", "g", "t", "h">>

\* value?.[part]: undefined on null / undefined, the own property of an object;
\* on a primitive the property of its wrapper: a string has 'length' (the
\* function-valued properties every value inherits are not data and are left
\* out), a number or a boolean has no data property
OptionalIndex(value, part) ==
    IF value.t = "object"
    THEN IF part \in DOMAIN value.m THEN value.m[part] ELSE Undefined
    ELSE IF value.t = "string" /\ part = s_length THEN NumV(Len(value.s))
    ELSE Undefined

\* value[part] without the optional chaining: a TypeError on null / undefined
PlainIndex(value, part) ==
    IF value.t \in {"null", "undefined"} THEN Thrown ELSE OptionalIndex(value, part)

RECURSIVE Descend(_, _)
Descend(value, parts) ==
    IF parts = <<>> THEN value
    ELSE LET next == OptionalIndex(value, Head(parts))
         IN  IF next = Undefined THEN next ELSE Descend(next, Tail(parts))

RECURSIVE DescendPlain(_, _)
DescendPlain(value, parts) ==
    IF parts = <<>> THEN value
    ELSE LET next == PlainIndex(value, Head(parts))
         IN  IF next \in {Undefined, Thrown} THEN next ELSE DescendPlain(next, Tail(parts))

getFieldValue_noOptionalChaining(context, field) ==
    DescendPlain(context, Split(field, "."))

getFieldValue(context, field) ==
    Descend(context, Split(field, "."))

\* ToNumber, as the relational operators apply it to an operand that is not a
\* number: true is 1, false and null are 0, the empty string is 0; here every
\* other value converts to NaN, with which every comparison is false
CoercesToNumber(v) ==
    v.t \in {"number", "boolean", "null"} \/ (v.t = "string" /\ v.s = <<>>)

CoercedNumber(v) ==
    IF v.t = "number" THEN v.n ELSE IF v.t = "boolean" /\ v.b THEN 1 ELSE 0

\* an evaluator whose comparisons lack the typeof guards
evaluateCondition_unguardedComparison(fieldValue, operator, conditionValue) ==
    CASE operator = "equals" -> StrictEquals(fieldValue, conditionValue)
      [] operator = "not_equals" -> ~StrictEquals(fieldValue, conditionValue)
      [] operator = "contains" ->
            /\ fieldValue.t = "string"
            /\ conditionValue.t = "string"
            /\ Includes(fieldValue.s, conditionValue.s)
      [] operator = "greater_than" ->
            /\ CoercesToNumber(fieldValue)
            /\ CoercesToNumber(conditionValue)
            /\ CoercedNumber(fieldValue) > CoercedNumber(conditionValue)
      [] operator = "less_than" ->
            /\ CoercesToNumber(fieldValue)
            /\ CoercesToNumber(conditionValue)
            /\ CoercedNumber(fieldValue) < CoercedNumber(conditionValue)
      [] operator = "is_empty" -> Falsy(fieldValue)
      [] operator = "is_not_empty" ->
            /\ fieldValue.t \notin {"undefined", "null"}
            /\ (fieldValue.t # "string" \/ Len(fieldValue.s) > 0)
      [] OTHER -> FALSE

\* an evaluator whose switch lets an unknown operator pass
evaluateCondition_defaultAllow(fieldValue, operator, conditionValue) ==
    CASE operator = "equals" -> StrictEquals(fieldValue, conditionValue)
      [] operator = "not_equals" -> ~StrictEquals(fieldValue, conditionValue)
      [] operator = "contains" ->
            /\ fieldValue.t = "string"
            /\ conditionValue.t = "string"
            /\ Includes(fieldValue.s, conditionValue.s)
      [] operator = "greater_than" ->
            /\ fieldValue.t = "number"
            /\ conditionValue.t = "number"
            /\ fieldValue.n > conditionValue.n
      [] operator = "less_than" ->
            /\ fieldValue.t = "number"
            /\ conditionValue.t = "number"
            /\ fieldValue.n < conditionValue.n
      [] operator = "is_empty" -> Falsy(fieldValue)
      [] operator = "is_not_empty" ->
            /\ fieldValue.t \notin {"undefined", "null"}
            /\ (fieldValue.t # "string" \/ Len(fieldValue.s) > 0)
      [] OTHER -> TRUE

evaluateCondition(fieldValue, operator, conditionValue) ==
    CASE operator = "equals" -> StrictEquals(fieldValue, conditionValue)
      [] operator = "not_equals" -> ~StrictEquals(fieldValue, conditionValue)
      [] operator = "contains" ->
            /\ fieldValue.t = "string"
            /\ conditionValue.t = "string"
            /\ Includes(fieldValue.s, conditionValue.s)
      [] operator = "greater_than" ->
            /\ fieldValue.t = "number"
            /\ conditionValue.t = "number"
            /\ fieldValue.n > conditionValue.n
      [] operator = "less_than" ->
            /\ fieldValue.t = "number"
            /\ conditionValue.t = "number"
            /\ fieldValue.n < conditionValue.n
      [] operator = "is_empty" -> Falsy(fieldValue)
      [] operator = "is_not_empty" ->
            /\ fieldValue.t \notin {"undefined", "null"}
            /\ (fieldValue.t # "string" \/ Len(fieldValue.s) > 0)
      [] OTHER -> FALSE

\* a loop that returns true at the first condition that holds
RECURSIVE evaluateConditions_anyCondition(_, _)
evaluateConditions_anyCondition(conditions, context) ==
    IF conditions = <<>> THEN "true"
    ELSE LET condition == Head(conditions)
             fieldValue == getFieldValue(context, condition.field)
         IN  IF fieldValue = Thrown THEN "throw"
             ELSE IF evaluateCondition(fieldValue, condition.operator, condition.value)
                  THEN "true"
                  ELSE IF Tail(conditions) = <<>> THEN "false"
                       ELSE evaluateConditions_anyCondition(Tail(conditions), context)

\* "true" / "false", or "throw" when reading a field raised
RECURSIVE evaluateConditions(_, _)
evaluateConditions(conditions, context) ==
    IF conditions = <<>> THEN "true"
    ELSE LET condition == Head(conditions)
             fieldValue == getFieldValue(context, condition.field)
         IN  IF fieldValue = Thrown THEN "throw"
             ELSE IF ~evaluateCondition(fieldValue, condition.operator, condition.value)
                  THEN "false"
                  ELSE evaluateConditions(Tail(conditions), context)

\* the number of evaluateCondition calls the loop of evaluateConditions makes
RECURSIVE conditionsEvaluated(_, _)
conditionsEvaluated(conditions, context) ==
    IF conditions = <<>> THEN 0
    ELSE LET condition == Head(conditions)
             fieldValue == getFieldValue(context, condition.field)
         IN  IF fieldValue = Thrown THEN 0
             ELSE IF ~evaluateCondition(fieldValue, condition.operator, condition.value)
                  THEN 1
                  ELSE 1 + conditionsEvaluated(Tail(conditions), context)

-----------------------------------------------------------------------------
(* Rules and contexts the model draws its inputs from *)

Condition(field, operator, value) ==
    [field |-> field, operator |-> operator, value |-> value]

Action(type, parameters) == [type |-> type, parameters |-> parameters]

Rule(id, name, triggerType, conditions, actions, enabled) ==
    [id |-> id, name |-> name, trigger |-> [type |-> triggerType],
     conditions |-> conditions, actions |-> actions, enabled |-> enabled]

s_msg == <<"m", "s", "g">>
s_path == <<"n", ".", "m", "d">>

notifyOk == Action("send_notification", [message |-> StrV(s_msg)])
\* parameters.message is missing: interpolateString calls replace on undefined
notifyNoMessage == Action("send_notification", EmptyMap)
createNote == Action("create_note", [path |-> StrV(s_path), content |-> StrV(s_msg)])
updateStatus == Action("update_status", [type |-> StrV(<<"m">>)])

ruleA1 == Rule("A", "a1", "task_created",
               <<Condition(s_task_priority, "equals", StrV(s_high))>>,
               <<notifyNoMessage, notifyOk>>, TRUE)
ruleA2 == Rule("A", "a2", "task_created", <<>>, <<updateStatus>>, FALSE)
ruleB1 == Rule("B", "b1", "task_created",
               <<Condition(s_task_priority, "not_equals", StrV(s_low))>>,
               <<createNote>>, TRUE)
ruleB2 == Rule("B", "b2", "daily_schedule", <<>>, <<notifyOk>>, TRUE)

RulePool == {ruleA1, ruleA2, ruleB1, ruleB2}

RuleIds == {"A", "B"}

\* the ids of the rules loadDefaultRules registers
DefaultIds ==
    {"overdue-task-notification", "task-completion-milestone", "high-priority-notification"}

ctxHigh == ObjV(s_task :> ObjV(s_priority :> StrV(s_high)))
ctxNull == ObjV(s_task :> Null)
ctxScalar == ObjV(s_task :> StrV(s_low))
ctxFile == ObjV(s_file :> ObjV(EmptyMap))

Digit(n) == <<"0", "1", "2", "3", "4", "5", "6", "7", "8", "9">>[n + 1]

\* Date.prototype.toISOString: a string that names the instant (here its
\* tick count in decimal digits)
RECURSIVE toISOString(_)
toISOString(now) ==
    IF now < 10 THEN <<Digit(now)>>
    ELSE Append(toISOString(now \div 10), Digit(now % 10))

\* the context built by runDailyAutomation at instant now
dailyContext(now) ==
    ObjV(s_date :> StrV(toISOString(now)) @@ s_type :> StrV(s_daily_check))

\* the (trigger type, context) pairs event sources pass to triggerAutomation
HostEvents ==
    {<<"task_created", c>> : c \in {ctxHigh, ctxNull, ctxScalar, ctxFile}}
        \cup {<<"task_updated", ctxFile>>, <<"daily_schedule", dailyContext(0)>>}

Slots == {"d1", "d2"}

\* the call slots the timers' dispatches run in
SchedSlots == {"d1"}

-----------------------------------------------------------------------------
(* interpolateString: template.replace(/\{\{([^}]+)\}\}/g, replacer) *)

\* Number.prototype.toString for an integer
RECURSIVE NaturalToString(_)
NaturalToString(n) ==
    IF n < 10 THEN <<Digit(n)>>
    ELSE Append(NaturalToString(n \div 10), Digit(n % 10))

NumberToString(n) == IF n < 0 THEN <<"-">> \o NaturalToString(-n) ELSE NaturalToString(n)

s_true == <<"t", "r", "u", "e">>
s_false == <<"f", "a", "l", "s", "e">>
s_null == <<"n", "u", "l", "l">>
s_object_Object ==
    <<"[", "o", "b", "j", "e", "c", "t", " ", "O", "b", "j", "e", "c", "t", "]">>

\* String(value)
StringOf(value) ==
    CASE value.t = "string" -> value.s
      [] value.t = "number" -> NumberToString(value.n)
      [] value.t = "boolean" -> IF value.b THEN s_true ELSE s_false
      [] value.t = "null" -> s_null
      [] OTHER -> s_object_Object

\* String.prototype.trim (the white space of the model is the blank)
RECURSIVE trimStart(_)
trimStart(s) == IF s # <<>> /\ Head(s) = " " THEN trimStart(Tail(s)) ELSE s

RECURSIVE trimEnd(_)
trimEnd(s) ==
    IF s # <<>> /\ s[Len(s)] = " " THEN trimEnd(SubSeq(s, 1, Len(s) - 1)) ELSE s

trim(s) == trimEnd(trimStart(s))

\* [^}]+ from position i: the length of the longest run without '}'
RECURSIVE RunLength(_, _)
RunLength(s, i) == IF i > Len(s) \/ s[i] = "}" THEN 0 ELSE 1 + RunLength(s, i + 1)

\* the length of the match of \{\{([^}]+)\}\} that starts at position i, 0 if
\* there is none (only the longest run can be followed by '}}')
MatchAt(s, i) ==
    IF i + 1 <= Len(s) /\ s[i] = "{" /\ s[i + 1] = "{"
    THEN LET n == RunLength(s, i + 2)
             e == i + 2 + n
         IN  IF n >= 1 /\ e + 1 <= Len(s) /\ s[e] = "}" /\ s[e + 1] = "}"
             THEN n + 4 ELSE 0
    ELSE 0

\* a replacer that drops the token whose path does not resolve
replacer_dropsUnresolved(match, path, context) ==
    LET value == getFieldValue(context, trim(path))
    IN  IF value # Undefined THEN StringOf(value) ELSE <<>>

\* a replacer that does not trim the captured path
replacer_noTrim(match, path, context) ==
    LET value == getFieldValue(context, path)
    IN  IF value # Undefined THEN StringOf(value) ELSE match

\* the replacer callback: (match, path) => ...
replacer(match, path, context) ==
    LET value == getFieldValue(context, trim(path))
    IN  IF value # Undefined THEN StringOf(value) ELSE match

\* replace with the g flag: matches are searched left to right, the replaced
\* text is not searched again
RECURSIVE ReplaceFrom(_, _, _)
ReplaceFrom(s, i, context) ==
    IF i > Len(s) THEN <<>>
    ELSE LET m == MatchAt(s, i)
         IN  IF m = 0 THEN <<s[i]>> \o ReplaceFrom(s, i + 1, context)
             ELSE replacer(SubSeq(s, i, i + m - 1), SubSeq(s, i + 2, i + m - 3), context)
                      \o ReplaceFrom(s, i + m, context)

interpolateString(template, context) == ReplaceFrom(template, 1, context)

-----------------------------------------------------------------------------
(* The rules Map: entries in insertion order, keyed by rule id *)

MapHas(m, k) == \E i \in 1..Len(m) : m[i].key = k

MapIndex(m, k) == CHOOSE i \in 1..Len(m) : m[i].key = k

MapGet(m, k) == IF MapHas(m, k) THEN m[MapIndex(m, k)].value ELSE Undefined

\* a store that appends without looking for the key
MapSet_alwaysAppends(m, k, v) == Append(m, [key |-> k, value |-> v])

\* Map.prototype.set: an existing key keeps its position
MapSet(m, k, v) ==
    IF MapHas(m, k)
    THEN [m EXCEPT ![MapIndex(m, k)] = [key |-> k, value |-> v]]
    ELSE Append(m, [key |-> k, value |-> v])

MapDelete(m, k) == SelectSeq(m, LAMBDA e : e.key # k)

\* Array.from(map.values())
MapValues(m) == [i \in 1..Len(m) |-> m[i].value]

getRules(m) == MapValues(m)

getRule(m, ruleId) == MapGet(m, ruleId)

isAutomationEnabled == isEnabled

NoRule == [id |-> "none"]

-----------------------------------------------------------------------------
(* triggerAutomation and the functions it calls *)

\* the filter of triggerAutomation over Array.from(this.rules.values())
applicableRules_ignoresEnabled(registry, triggerType) ==
    SelectSeq(MapValues(registry), LAMBDA rule : rule.trigger.type = triggerType)

Reverse(seq) == [i \in 1..Len(seq) |-> seq[Len(seq) + 1 - i]]

\* a filter that hands the rules over last registered first
applicableRules_reversed(registry, triggerType) ==
    Reverse(SelectSeq(MapValues(registry),
                      LAMBDA rule : rule.enabled /\ rule.trigger.type = triggerType))

\* a filter that looks at the enabled flag alone
applicableRules_anyTrigger(registry, triggerType) ==
    SelectSeq(MapValues(registry), LAMBDA rule : rule.enabled)

applicableRules(registry, triggerType) ==
    SelectSeq(MapValues(registry),
              LAMBDA rule : rule.enabled /\ rule.trigger.type = triggerType)

\* a bug that iterates the live Map instead of the array built at the start
remainingRules_live(pending, registry) ==
    SelectSeq(pending, LAMBDA rule :
        /\ MapHas(registry, rule.id)
        /\ MapGet(registry, rule.id).enabled)

\* a loop that goes on to the next rule only while the engine is enabled
remainingRules_whileEnabled(pending, registry) == IF isEnabled THEN pending ELSE <<>>

\* for (const rule of applicableRules): the rules still to visit are those of
\* the array built at the start, whatever the registry holds by now
remainingRules(pending, registry) == pending

IsString(parameters, name) ==
    name \in DOMAIN parameters /\ parameters[name].t = "string"

\* an executeAction whose default case rejects
executeActionThrows_unknownRejects(action, collaboratorFails) ==
    CASE action.type = "send_notification" ->
            ~IsString(action.parameters, "message") \/ collaboratorFails
      [] action.type = "create_task" -> ~IsString(action.parameters, "title")
      [] action.type = "create_note" ->
            ~IsString(action.parameters, "content") \/ ~IsString(action.parameters, "path")
      [] OTHER -> action.type \notin {"update_task", "update_status"}

\* Does executeAction(action, context) reject?  interpolateString calls
\* template.replace, a TypeError unless the parameter is a string; new Notice
\* is the notification collaborator and may fail; createNote catches the
\* failure of vault.create itself.
executeActionThrows(action, collaboratorFails) ==
    CASE action.type = "send_notification" ->
            ~IsString(action.parameters, "message") \/ collaboratorFails
      [] action.type = "create_task" -> ~IsString(action.parameters, "title")
      [] action.type = "create_note" ->
            ~IsString(action.parameters, "content") \/ ~IsString(action.parameters, "path")
      [] OTHER -> FALSE

\* sendNotification(parameters, context): the messages handed to new Notice
\* (none when interpolateString raised before the Notice was built)
sendNotification(parameters, context) ==
    IF IsString(parameters, "message")
    THEN <<interpolateString(parameters.message.s, context)>>
    ELSE <<>>

\* createNote(parameters, context): the calls of app.vault.create (none when
\* interpolateString raised first)
vaultCreate(parameters, context) ==
    IF IsString(parameters, "content") /\ IsString(parameters, "path")
    THEN <<[path |-> interpolateString(parameters.path.s, context),
            content |-> interpolateString(parameters.content.s, context)]>>
    ELSE <<>>

\* an update_status executor that stores the new status in the context
contextAfter_statusStored(action, context) ==
    IF action.type = "update_status" /\ context.t = "object"
    THEN ObjV([k \in DOMAIN context.m \cup {s_status} |->
                  IF k = s_status THEN StrV(s_done) ELSE context.m[k]])
    ELSE context

\* the context object after executeAction(action, context): the executors
\* read parameters and context and assign to neither
contextAfter(action, context) == context

onActionError_rethrow == "abort"

\* the catch block of executeActions logs the error; the loop goes on
onActionError == "continue"

\* evaluateConditions is awaited outside any try block: a rejection ends
\* triggerAutomation
onConditionError == "abort"

dispatchIsNoOp_never(enabledFlag) == FALSE

\* if (!this.isEnabled) return;
dispatchIsNoOp(enabledFlag) == ~enabledFlag

Idle ==
    [pc |-> "idle", triggerType |-> "", context |-> Undefined, pending |-> <<>>,
     rule |-> NoRule, conditionsHold |-> "false", actionIndex |-> 0,
     actionThrew |-> FALSE]

NotStarted == [enabled |-> FALSE, rules |-> <<>>, context |-> Undefined]

InFlight(d) == disp[d].pc \in {"awaitConditions", "awaitAction", "awaitActions"}

Finished(d) == disp[d].pc \in {"done", "threw"}

IsLive(registry, rule) ==
    MapHas(registry, rule.id) /\ MapGet(registry, rule.id).enabled

\* what one evaluateConditions call did: its outcome and how many conditions
\* it evaluated
ConditionEvent(rule, outcome, evaluated) ==
    [k |-> "conditions", rule |-> rule.id, name |-> rule.name, result |-> outcome,
     evaluated |-> evaluated]

\* what one executeAction call did: notices are the messages it handed to
\* new Notice, created the notes it handed to app.vault.create
ActionEvent(rule, index, context, threw, live) ==
    [k |-> "action", rule |-> rule.id, name |-> rule.name, index |-> index,
     type |-> rule.actions[index].type,
     notices |-> IF rule.actions[index].type = "send_notification"
                 THEN sendNotification(rule.actions[index].parameters, context)
                 ELSE <<>>,
     created |-> IF rule.actions[index].type = "create_note"
                 THEN vaultCreate(rule.actions[index].parameters, context)
                 ELSE <<>>,
     threw |-> threw, live |-> live]

\* The head of the for loop of triggerAutomation, entered with the locals loc
\* and the events tr recorded so far: the next rule's conditions are evaluated
\* synchronously, then the call awaits their result.
LoopHead(d, loc, tr) ==
    LET rest == remainingRules(loc.pending, rules)
    IN  IF rest = <<>>
        THEN /\ disp' = [disp EXCEPT ![d] = [loc EXCEPT !.pc = "done", !.pending = <<>>]]
             /\ trace' = [trace EXCEPT ![d] = tr]
        ELSE LET rule == Head(rest)
                 outcome == evaluateConditions(rule.conditions, loc.context)
             IN  /\ disp' = [disp EXCEPT ![d] =
                        [loc EXCEPT !.pc = IF outcome = "throw" /\ onConditionError = "abort"
                                           THEN "threw" ELSE "awaitConditions",
                                    !.pending = Tail(rest),
                                    !.rule = rule,
                                    !.conditionsHold = IF outcome = "throw" THEN "false" ELSE outcome]]
                 /\ trace' = [trace EXCEPT ![d] =
                        Append(tr, ConditionEvent(rule, outcome,
                                       conditionsEvaluated(rule.conditions, loc.context)))]

\* executeAction(actions[index]) is called: its synchronous part runs, then
\* executeActions awaits it
CallAction(d, loc, index, collaboratorFails) ==
    LET threw == executeActionThrows(loc.rule.actions[index], collaboratorFails)
    IN  /\ disp' = [disp EXCEPT ![d] =
               [loc EXCEPT !.pc = "awaitAction", !.actionIndex = index, !.actionThrew = threw,
                           !.context = contextAfter(loc.rule.actions[index], loc.context)]]
        /\ trace' = [trace EXCEPT ![d] =
               Append(@, ActionEvent(loc.rule, index, loc.context, threw,
                                     IsLive(rules, loc.rule)))]

EngineUnchanged ==
    UNCHANGED <<isEnabled, rules, lastSetEnabled, lastSet, replaced, initialized>>

ErrorLogUnchanged == UNCHANGED <<errorLog, errorCount>>

NoCall == [fn |-> "none"]

\* the call is made, it has not returned
Pending == [returned |-> FALSE]

Returned(value) == [returned |-> TRUE, value |-> value]

CallsUnchanged == UNCHANGED <<call, result>>

SchedulerUnchanged == UNCHANGED <<clock, timers, issued, chains>>

\* triggerAutomation(triggerType, context) is called: it runs up to its first await
StartDispatch(d, triggerType, context) ==
    /\ ~InFlight(d)
    /\ startInfo' = [startInfo EXCEPT ![d] =
           [enabled |-> isEnabled, rules |-> MapValues(rules), context |-> context]]
    /\ IF dispatchIsNoOp(isEnabled)
       THEN /\ disp' = [disp EXCEPT ![d] =
                   [Idle EXCEPT !.pc = "done", !.triggerType = triggerType, !.context = context]]
            /\ trace' = [trace EXCEPT ![d] = <<>>]
       ELSE LoopHead(d, [Idle EXCEPT !.triggerType = triggerType, !.context = context,
                                     !.pending = applicableRules(rules, triggerType)], <<>>)

\* an event source (vault 'create' / 'modify' handler, or any caller) dispatches
TriggerAutomation(d) ==
    /\ \E ev \in HostEvents : StartDispatch(d, ev[1], ev[2])
    /\ EngineUnchanged
    /\ CallsUnchanged
    /\ ErrorLogUnchanged
    /\ SchedulerUnchanged

\* the await of evaluateConditions resumes
AfterConditions(d) ==
    /\ disp[d].pc = "awaitConditions"
    /\ IF disp[d].conditionsHold = "true"
       THEN IF disp[d].rule.actions = <<>>
            THEN /\ disp' = [disp EXCEPT ![d].pc = "awaitActions"]
                 /\ UNCHANGED trace
            ELSE \E collaboratorFails \in BOOLEAN : CallAction(d, disp[d], 1, collaboratorFails)
       ELSE LoopHead(d, disp[d], trace[d])
    /\ UNCHANGED startInfo
    /\ EngineUnchanged
    /\ CallsUnchanged
    /\ ErrorLogUnchanged
    /\ SchedulerUnchanged

\* the await of executeAction resumes inside executeActions
AfterAction(d) ==
    /\ disp[d].pc = "awaitAction"
    /\ IF disp[d].actionThrew /\ onActionError = "abort"
       THEN /\ disp' = [disp EXCEPT ![d].pc = "threw"]
            /\ UNCHANGED trace
       ELSE IF disp[d].actionIndex < Len(disp[d].rule.actions)
            THEN \E collaboratorFails \in BOOLEAN :
                    CallAction(d, disp[d], disp[d].actionIndex + 1, collaboratorFails)
            ELSE /\ disp' = [disp EXCEPT ![d].pc = "awaitActions"]
                 /\ UNCHANGED trace
    /\ UNCHANGED startInfo
    /\ EngineUnchanged
    /\ CallsUnchanged
    /\ ErrorLogUnchanged
    /\ SchedulerUnchanged

\* the await of executeActions resumes: on to the next rule
AfterActions(d) ==
    /\ disp[d].pc = "awaitActions"
    /\ LoopHead(d, disp[d], trace[d])
    /\ UNCHANGED startInfo
    /\ EngineUnchanged
    /\ CallsUnchanged
    /\ ErrorLogUnchanged
    /\ SchedulerUnchanged

DispatchUnchanged == UNCHANGED <<disp, trace, startInfo>>

-----------------------------------------------------------------------------
(* Public rule management *)

\* a bug that keeps the registered rule when the id is taken
addRule_keepsExisting(registry, rule) ==
    IF MapHas(registry, rule.id) THEN registry ELSE MapSet(registry, rule.id, rule)

addRule(registry, rule) == MapSet(registry, rule.id, rule)

removeRule(registry, ruleId) == MapDelete(registry, ruleId)

\* a store of the flag that makes the entry when the id is not registered
setRuleEnabled_upserts(registry, ruleId, flag) ==
    IF MapHas(registry, ruleId)
    THEN [registry EXCEPT ![MapIndex(registry, ruleId)].value.enabled = flag]
    ELSE MapSet(registry, ruleId, Rule(ruleId, "", "manual", <<>>, <<>>, flag))

\* const rule = this.rules.get(ruleId); if (rule) { rule.enabled = flag; }
setRuleEnabled(registry, ruleId, flag) ==
    IF MapHas(registry, ruleId)
    THEN [registry EXCEPT ![MapIndex(registry, ruleId)].value.enabled = flag]
    ELSE registry

enableRule(registry, ruleId) == setRuleEnabled(registry, ruleId, TRUE)

disableRule(registry, ruleId) == setRuleEnabled(registry, ruleId, FALSE)

AddRule(rule) ==
    /\ rules' = addRule(rules, rule)
    /\ lastSet' = [lastSet EXCEPT ![rule.id] = rule]
    /\ UNCHANGED <<isEnabled, lastSetEnabled, initialized>>
    /\ DispatchUnchanged
    /\ CallsUnchanged
    /\ ErrorLogUnchanged
    /\ SchedulerUnchanged

RemoveRule(ruleId) ==
    /\ rules' = removeRule(rules, ruleId)
    /\ UNCHANGED <<isEnabled, lastSetEnabled, lastSet, replaced, initialized>>
    /\ DispatchUnchanged
    /\ CallsUnchanged
    /\ ErrorLogUnchanged
    /\ SchedulerUnchanged

EnableRule(ruleId) ==
    /\ rules' = enableRule(rules, ruleId)
    /\ UNCHANGED <<isEnabled, lastSetEnabled, lastSet, replaced, initialized>>
    /\ DispatchUnchanged
    /\ CallsUnchanged
    /\ ErrorLogUnchanged
    /\ SchedulerUnchanged

DisableRule(ruleId) ==
    /\ rules' = disableRule(rules, ruleId)
    /\ UNCHANGED <<isEnabled, lastSetEnabled, lastSet, replaced, initialized>>
    /\ DispatchUnchanged
    /\ CallsUnchanged
    /\ ErrorLogUnchanged
    /\ SchedulerUnchanged

setEnabled(enabled) == enabled

SetEnabled(enabled) ==
    /\ isEnabled' = setEnabled(enabled)
    /\ lastSetEnabled' = enabled
    /\ UNCHANGED <<rules, lastSet, replaced, initialized>>
    /\ DispatchUnchanged
    /\ CallsUnchanged
    /\ ErrorLogUnchanged
    /\ SchedulerUnchanged

-----------------------------------------------------------------------------
(* The engine right after its constructor, for either value of the        *)
(* enableAutomation setting                                                *)

InitEngine ==
    /\ isEnabled \in BOOLEAN
    /\ lastSetEnabled = isEnabled
    /\ rules = <<>>
    /\ disp = [d \in Slots |-> Idle]
    /\ trace = [d \in Slots |-> <<>>]
    /\ startInfo = [d \in Slots |-> NotStarted]
    /\ clock = 0
    /\ timers = <<>>
    /\ issued = <<>>
    /\ chains = <<>>
    /\ lastSet = [id \in RuleIds \cup DefaultIds |-> NoRule]
    /\ replaced = [id \in RuleIds \cup DefaultIds |-> FALSE]
    /\ initialized = FALSE

\* ErrorHandler.getInstance() has built the singleton
InitErrorHandler ==
    /\ errorLog = <<>>
    /\ errorCount = 0

\* the state after construction, no pure method called yet
Init ==
    /\ InitEngine
    /\ InitErrorHandler
    /\ call = NoCall
    /\ result = Pending

\* one dispatch at a time, with the rule management calls made at its await points
Next ==
    \/ \E rule \in RulePool : AddRule(rule) /\ UNCHANGED replaced
    \/ \E ruleId \in RuleIds : RemoveRule(ruleId)
    \/ \E ruleId \in RuleIds : EnableRule(ruleId)
    \/ \E ruleId \in RuleIds : DisableRule(ruleId)
    \/ \E enabled \in BOOLEAN : SetEnabled(enabled)
    \/ TriggerAutomation("d1")
    \/ AfterConditions("d1")
    \/ AfterAction("d1")
    \/ AfterActions("d1")

Spec == Init /\ [][Next]_vars

-----------------------------------------------------------------------------
(* initialize() and the daily scheduler *)

TicksPerHour == 2
MaxDays == 2

TargetHour == 9
HoursPerDay == 24

Day == HoursPerDay * TicksPerHour
MaxClock == MaxDays * Day + TargetHour * TicksPerHour

s_overdue == <<"o", "v", "e", "r", "d", "u", "e">>
s_milestone == <<"m", "i", "l", "e">>
s_title_msg == <<"H", ":", "{", "{", "t", "a", "s", "k", ".", "t", "}", "}">>

\* the defaultRules array of loadDefaultRules, given the value of the overdue
\* rule's first condition
defaultRulesWith(overdueLiteral) ==
    << Rule("overdue-task-notification", "Overdue Task Notification", "daily_schedule",
            <<Condition(s_dueDate, "less_than", overdueLiteral),
              Condition(s_status, "not_equals", StrV(s_done))>>,
            <<Action("send_notification", [message |-> StrV(s_overdue)])>>, TRUE),
       Rule("task-completion-milestone", "Check Milestones on Task Completion", "task_completed",
            <<>>,
            <<Action("update_status", [type |-> StrV(s_milestone)])>>, TRUE),
       Rule("high-priority-notification", "High Priority Task Alert", "task_created",
            <<Condition(s_priority, "equals", StrV(s_high))>>,
            <<Action("send_notification", [message |-> StrV(s_title_msg)])>>, TRUE) >>

\* an overdue rule whose value is the instant as a number (Date.now())
defaultRules_numericLiteral(now) == defaultRulesWith(NumV(now))

\* the array as built at instant now: value: new Date().toISOString()
defaultRules(now) == defaultRulesWith(StrV(toISOString(now)))

RECURSIVE SetAll(_, _)
SetAll(registry, rs) ==
    IF rs = <<>> THEN registry
    ELSE SetAll(MapSet(registry, Head(rs).id, Head(rs)), Tail(rs))

loadDefaultRules(registry, now) == SetAll(registry, defaultRules(now))

\* tomorrow.setDate(getDate() + 1); tomorrow.setHours(9, 0, 0, 0); on any day
\* but the day of a daylight-saving change, a local day has HoursPerDay hours
tomorrowNine_sameDayBeforeNine(now) ==
    IF now % Day < TargetHour * TicksPerHour
    THEN (now \div Day) * Day + TargetHour * TicksPerHour
    ELSE (now \div Day + 1) * Day + TargetHour * TicksPerHour

tomorrowNine(now) == (now \div Day + 1) * Day + TargetHour * TicksPerHour

\* setupDailySchedule: setTimeout(..., tomorrow - now)
setupDailySchedule(ts, now) ==
    Append(ts, [kind |-> "timeout", due |-> now + (tomorrowNine(now) - now),
                chain |-> Len(chains) + 1])

\* initialize(); loadCustomRules loads nothing, and neither it nor
\* loadDefaultRules waits for anything.  Each timer chain needs a call slot of
\* its own when the chains fire at the same instant, hence the guard.
InitializeUpTo(maxChains) ==
    /\ Len(chains) < maxChains
    /\ IF ~isEnabled
       THEN UNCHANGED <<rules, lastSet, timers, chains>>
       ELSE /\ rules' = loadDefaultRules(rules, clock)
            /\ lastSet' = [id \in DOMAIN lastSet |->
                              IF \E i \in 1..3 : defaultRules(clock)[i].id = id
                              THEN defaultRules(clock)[CHOOSE i \in 1..3 :
                                                           defaultRules(clock)[i].id = id]
                              ELSE lastSet[id]]
            /\ timers' = setupDailySchedule(timers, clock)
            /\ chains' = Append(chains, [armedAt |-> clock])
    /\ initialized' = TRUE
    /\ UNCHANGED <<isEnabled, lastSetEnabled, clock, issued>>
    /\ DispatchUnchanged
    /\ CallsUnchanged
    /\ ErrorLogUnchanged

Initialize == InitializeUpTo(Cardinality(SchedSlots))

FreeSlot == IF \E d \in SchedSlots : ~InFlight(d)
            THEN CHOOSE d \in SchedSlots : ~InFlight(d)
            ELSE "d1"

\* runDailyAutomation(): one triggerAutomation('daily_schedule', {date, type})
runDailyAutomation(chain) ==
    /\ ~InFlight(FreeSlot)
    /\ StartDispatch(FreeSlot, "daily_schedule", dailyContext(clock))
    /\ issued' = Append(issued, [at |-> clock, chain |-> chain, slot |-> FreeSlot,
                                 triggerType |-> "daily_schedule",
                                 context |-> dailyContext(clock)])

nextIntervalDue_hourly(now) == now + TicksPerHour

\* setInterval(..., 24 * 60 * 60 * 1000)
nextIntervalDue(now) == now + HoursPerDay * TicksPerHour

\* a setTimeout callback that runs once and arms nothing
TimeoutFires_once(i) ==
    /\ timers[i].kind = "timeout"
    /\ timers[i].due = clock
    /\ runDailyAutomation(timers[i].chain)
    /\ timers' = SelectSeq(timers, LAMBDA t : t # timers[i])
    /\ UNCHANGED <<clock, chains>>
    /\ EngineUnchanged
    /\ CallsUnchanged
    /\ ErrorLogUnchanged

\* the setTimeout callback: the first run, then setInterval(..., 24 h)
TimeoutFires(i) ==
    /\ timers[i].kind = "timeout"
    /\ timers[i].due = clock
    /\ runDailyAutomation(timers[i].chain)
    /\ timers' = [timers EXCEPT ![i] = [kind |-> "interval", due |-> nextIntervalDue(clock),
                                        chain |-> timers[i].chain]]
    /\ UNCHANGED <<clock, chains>>
    /\ EngineUnchanged
    /\ CallsUnchanged
    /\ ErrorLogUnchanged

\* the setInterval callback
IntervalFires(i) ==
    /\ timers[i].kind = "interval"
    /\ timers[i].due = clock
    /\ runDailyAutomation(timers[i].chain)
    /\ timers' = [timers EXCEPT ![i].due = nextIntervalDue(clock)]
    /\ UNCHANGED <<clock, chains>>
    /\ EngineUnchanged
    /\ CallsUnchanged
    /\ ErrorLogUnchanged

\* time passes; a due timer runs first, the collaborators' calls take no
\* time at the clock's resolution, and the calls that have returned are forgotten
Tick ==
    /\ clock < MaxClock
    /\ \A i \in 1..Len(timers) : timers[i].due > clock
    /\ \A d \in Slots : ~InFlight(d)
    /\ clock' = clock + 1
    /\ disp' = [d \in Slots |-> Idle]
    /\ trace' = [d \in Slots |-> <<>>]
    /\ startInfo' = [d \in Slots |-> NotStarted]
    /\ UNCHANGED <<timers, issued, chains>>
    /\ EngineUnchanged
    /\ CallsUnchanged
    /\ ErrorLogUnchanged

\* the engine from its constructor on, with its timers and the clock
NextSched ==
    \/ Initialize /\ UNCHANGED replaced
    \/ Tick
    \/ \E i \in 1..Len(timers) : TimeoutFires(i)
    \/ \E i \in 1..Len(timers) : IntervalFires(i)
    \/ \E enabled \in BOOLEAN : SetEnabled(enabled)
    \/ AddRule(ruleB2) /\ UNCHANGED replaced
    \/ \E d \in SchedSlots : AfterConditions(d)
    \/ \E d \in SchedSlots : AfterAction(d)
    \/ \E d \in SchedSlots : AfterActions(d)

SpecSched == Init /\ [][NextSched]_vars

s_open == <<"o">>

\* contexts a caller may dispatch daily_schedule with: an item due in the
\* past, its date a number or a date string, and a finished item
OverdueContexts ==
    {ObjV(s_dueDate :> NumV(-1) @@ s_status :> StrV(s_open)),
     ObjV(s_dueDate :> StrV(toISOString(0)) @@ s_status :> StrV(s_open)),
     ObjV(s_dueDate :> NumV(-1) @@ s_status :> StrV(s_done))}

\* a caller dispatches daily_schedule with a context of its own
TriggerDaily(d) ==
    /\ \E context \in OverdueContexts : StartDispatch(d, "daily_schedule", context)
    /\ EngineUnchanged
    /\ CallsUnchanged
    /\ ErrorLogUnchanged
    /\ SchedulerUnchanged

\* the initialized engine, its timers, callers dispatching daily_schedule, and
\* a second daily rule that notifies
NextOverdue ==
    \/ Initialize /\ UNCHANGED replaced
    \/ Tick
    \/ \E i \in 1..Len(timers) : TimeoutFires(i)
    \/ \E i \in 1..Len(timers) : IntervalFires(i)
    \/ \E d \in SchedSlots : TriggerDaily(d)
    \/ AddRule(ruleB2) /\ UNCHANGED replaced
    \/ \E d \in SchedSlots : AfterConditions(d)
    \/ \E d \in SchedSlots : AfterAction(d)
    \/ \E d \in SchedSlots : AfterActions(d)

SpecOverdue == Init /\ [][NextOverdue]_vars

\* the initialize() calls made on one engine
MaxInitializeCalls == 2

\* an engine whose initialize() is called more than once, with its timers;
\* the registry holds the default rules only, whose one daily rule never gets
\* to its actions, so a dispatch ends after the await of evaluateConditions
NextReinit ==
    \/ InitializeUpTo(MaxInitializeCalls) /\ UNCHANGED replaced
    \/ Tick
    \/ \E i \in 1..Len(timers) : TimeoutFires(i)
    \/ \E i \in 1..Len(timers) : IntervalFires(i)
    \/ \E d \in SchedSlots : AfterConditions(d)

SpecReinit == Init /\ [][NextReinit]_vars

\* a daily rule whose action rejects
ruleDailyFails == Rule("A", "fails", "daily_schedule", <<>>, <<notifyNoMessage, notifyOk>>, TRUE)

MinDue(ts) ==
    CHOOSE m \in {ts[i].due : i \in 1..Len(ts)} : \A i \in 1..Len(ts) : m <= ts[i].due

\* Time passes without end.  Nothing the engine does depends on the instant
\* between two timer callbacks, so time moves to the next instant a timer is
\* due (by one tick while none is armed); instants are kept up to a shift by
\* whole days, which neither the time of day nor a timer's distance from now
\* depends on, and the fires and calls of earlier instants are forgotten.
PassTime ==
    /\ \A i \in 1..Len(timers) : timers[i].due > clock
    /\ \A d \in Slots : ~InFlight(d)
    /\ LET next == IF timers = <<>> THEN clock + 1 ELSE MinDue(timers)
           shift == IF next >= 2 * Day THEN (next \div Day - 1) * Day ELSE 0
       IN  /\ clock' = next - shift
           /\ timers' = [i \in 1..Len(timers) |-> [timers[i] EXCEPT !.due = @ - shift]]
    /\ issued' = <<>>
    /\ disp' = [d \in Slots |-> Idle]
    /\ trace' = [d \in Slots |-> <<>>]
    /\ startInfo' = [d \in Slots |-> NotStarted]
    /\ UNCHANGED chains
    /\ EngineUnchanged
    /\ CallsUnchanged
    /\ ErrorLogUnchanged

\* the engine over unbounded time: initialize(), the timers, setEnabled and
\* rule management, with a daily rule whose first action fails
NextPerpetual ==
    \/ Initialize /\ UNCHANGED replaced
    \/ PassTime
    \/ \E i \in 1..Len(timers) : TimeoutFires(i)
    \/ \E i \in 1..Len(timers) : IntervalFires(i)
    \/ \E enabled \in BOOLEAN : SetEnabled(enabled)
    \/ AddRule(ruleDailyFails) /\ UNCHANGED replaced
    \/ RemoveRule("A")
    \/ \E d \in SchedSlots : AfterConditions(d)
    \/ \E d \in SchedSlots : AfterAction(d)
    \/ \E d \in SchedSlots : AfterActions(d)

\* The host's event loop runs a due timer callback and resumes an await whose
\* promise has settled, and time passes; nothing obliges anyone to call
\* setEnabled, addRule, removeRule or initialize.
FairPerpetual ==
    /\ WF_vars(PassTime)
    /\ \A i \in 1..Cardinality(SchedSlots) :
          /\ WF_vars(i <= Len(timers) /\ TimeoutFires(i))
          /\ WF_vars(i <= Len(timers) /\ IntervalFires(i))
    /\ \A d \in SchedSlots :
          WF_vars(AfterConditions(d)) /\ WF_vars(AfterAction(d)) /\ WF_vars(AfterActions(d))

SpecPerpetual == Init /\ [][NextPerpetual]_vars /\ FairPerpetual

\* which of the ids a rules.set of the rules rs finds registered
Replaces(registry, rs) ==
    [id \in DOMAIN replaced |->
        IF \E i \in 1..Len(rs) : rs[i].id = id THEN MapHas(registry, id) ELSE replaced[id]]

\* the registry alone: rule management and initialize(), no dispatch in flight
NextRegistry ==
    \/ \E rule \in RulePool : AddRule(rule) /\ replaced' = Replaces(rules, <<rule>>)
    \/ \E ruleId \in RuleIds \cup {"high-priority-notification"} : RemoveRule(ruleId)
    \/ \E ruleId \in RuleIds \cup {"high-priority-notification"} : EnableRule(ruleId)
    \/ \E ruleId \in RuleIds \cup {"high-priority-notification"} : DisableRule(ruleId)
    \/ \E enabled \in BOOLEAN : SetEnabled(enabled)
    \/ Initialize /\ replaced' = IF isEnabled THEN Replaces(rules, defaultRules(clock))
                                              ELSE replaced

SpecRegistry == Init /\ [][NextRegistry]_vars

\* two dispatches in flight at once over a registry that rule management fills
NextConcurrent ==
    \/ \E rule \in {ruleA1, ruleB1} : AddRule(rule) /\ UNCHANGED replaced
    \/ \E d \in Slots : TriggerAutomation(d)
    \/ \E d \in Slots : AfterConditions(d)
    \/ \E d \in Slots : AfterAction(d)
    \/ \E d \in Slots : AfterActions(d)

\* the engine constructed with enableAutomation = true
InitConcurrent == Init /\ isEnabled = TRUE

SpecConcurrent == InitConcurrent /\ [][NextConcurrent]_vars

-----------------------------------------------------------------------------
(* The pure methods, called directly on inputs drawn from bounded sets *)

s_title == <<"t", "i", "t", "l", "e">>
s_count == <<"n">>
s_flag == <<"o", "k">>
s_none == <<"n", "o">>
s_sub == <<"s", "u", "b">>
s_missing == <<"m", "i", "s", "s">>

\* a task with a value of every kind
ctxFull ==
    ObjV(s_task :> ObjV(s_title :> StrV(<<"T">>) @@ s_priority :> StrV(s_high)
                        @@ s_count :> NumV(12) @@ s_flag :> BoolV(TRUE)
                        @@ s_none :> Null @@ s_sub :> ObjV(s_title :> StrV(<<>>))))

Contexts == {ObjV(EmptyMap), ctxHigh, ctxNull, ctxScalar, ctxFile, ctxFull}

\* the paths fields are built from, key by key
KeyPaths ==
    {<<s_task>>, <<s_file>>, <<s_missing>>, <<s_missing, s_path>>,
     <<s_task, s_priority>>, <<s_task, s_title>>, <<s_task, s_count>>,
     <<s_task, s_none>>, <<s_task, s_none, s_title>>, <<s_task, s_sub>>,
     <<s_task, s_sub, s_title>>, <<s_task, s_priority, s_title>>,
     <<s_task, s_priority, s_length>>, <<s_task, s_length>>,
     <<s_task, s_count, s_length>>}

RECURSIVE Join(_, _)
Join(keys, sep) ==
    IF keys = <<>> THEN <<>>
    ELSE IF Len(keys) = 1 THEN keys[1]
    ELSE keys[1] \o sep \o Join(Tail(keys), sep)

KnownOperators ==
    {"equals", "not_equals", "contains", "greater_than", "less_than", "is_empty",
     "is_not_empty"}

Operators == KnownOperators \cup {"matches", ""}

FieldValues ==
    {Undefined, Null, StrV(<<>>), StrV(s_high), StrV(s_low), NumV(-1), NumV(0), NumV(2),
     BoolV(TRUE), BoolV(FALSE), ObjV(EmptyMap), ObjV(s_priority :> StrV(s_high))}

Literals ==
    {Undefined, Null, StrV(<<>>), StrV(s_high), StrV(<<"i">>), NumV(-1), NumV(0), NumV(2),
     BoolV(TRUE), ObjV(EmptyMap)}

\* the pieces templates are built from: plain text, and {{ path }} tokens with
\* left / right blanks around the path
Text(s) == [k |-> "text", s |-> s]

Token(keys, left, right) == [k |-> "token", keys |-> keys, left |-> left, right |-> right]

Blanks(n) == [i \in 1..n |-> " "]

Pieces ==
    {Text(<<"a", ":", " ">>), Text(<<"{", "b", "}">>), Text(<<"{", "{", "}", "}">>),
     Text(<<"}", "}", " ", "{", "{", "c">>),
     Token(<<s_task, s_title>>, 0, 0), Token(<<s_task, s_title>>, 1, 2),
     Token(<<s_task, s_count>>, 0, 0), Token(<<s_task, s_none>>, 0, 1),
     Token(<<s_task, s_flag>>, 0, 0), Token(<<s_task, s_sub>>, 0, 0),
     Token(<<s_missing, s_path>>, 0, 0), Token(<<s_task, s_priority>>, 2, 0)}

MaxPieces == 3

Render(piece) ==
    IF piece.k = "text" THEN piece.s
    ELSE <<"{", "{">> \o Blanks(piece.left) \o Join(piece.keys, s_dot)
             \o Blanks(piece.right) \o <<"}", "}">>

RECURSIVE RenderAll(_)
RenderAll(pieces) ==
    IF pieces = <<>> THEN <<>> ELSE Render(Head(pieces)) \o RenderAll(Tail(pieces))

PieceSeqs == UNION {[1..n -> Pieces] : n \in 0..MaxPieces}

OthersUnchanged ==
    /\ EngineUnchanged
    /\ ErrorLogUnchanged
    /\ SchedulerUnchanged
    /\ DispatchUnchanged

\* the calls to make: the method and its arguments (keys are the keys the
\* field joins with dots, pieces the pieces the template is made of)
GetFieldValueCalls ==
    {[fn |-> "getFieldValue", context |-> context, keys |-> keys,
      field |-> Join(keys, s_dot)] : context \in Contexts, keys \in KeyPaths}

EvaluateConditionCalls ==
    {[fn |-> "evaluateCondition", fieldValue |-> fieldValue, operator |-> operator,
      conditionValue |-> conditionValue] :
        fieldValue \in FieldValues, operator \in Operators, conditionValue \in Literals}

EvaluateConditionsCalls ==
    {[fn |-> "evaluateConditions", context |-> kc[2], keys |-> kc[1],
      conditions |-> <<Condition(Join(kc[1], s_dot), ov[1], ov[2])>>] :
        kc \in KeyPaths \X Contexts, ov \in Operators \X Literals}

InterpolateStringCalls ==
    {[fn |-> "interpolateString", pieces |-> pieces, template |-> RenderAll(pieces),
      context |-> context] :
        pieces \in PieceSeqs, context \in {ObjV(EmptyMap), ctxHigh, ctxFull}}

InitCalls ==
    /\ InitEngine
    /\ InitErrorHandler
    /\ isEnabled
    /\ call \in GetFieldValueCalls \cup EvaluateConditionCalls
                    \cup EvaluateConditionsCalls \cup InterpolateStringCalls
    /\ result = Pending

Returns(fn, value) ==
    /\ call.fn = fn
    /\ ~result.returned
    /\ result' = Returned(value)
    /\ UNCHANGED call
    /\ OthersUnchanged

GetFieldValue == Returns("getFieldValue", getFieldValue(call.context, call.field))

EvaluateCondition ==
    Returns("evaluateCondition",
            evaluateCondition(call.fieldValue, call.operator, call.conditionValue))

EvaluateConditions ==
    Returns("evaluateConditions", evaluateConditions(call.conditions, call.context))

InterpolateString ==
    Returns("interpolateString", interpolateString(call.template, call.context))

NextCalls ==
    \/ GetFieldValue
    \/ EvaluateCondition
    \/ EvaluateConditions
    \/ InterpolateString

SpecCalls == InitCalls /\ [][NextCalls]_vars

-----------------------------------------------------------------------------
(* Dispatches over rules with several conditions, several actions and      *)
(* trigger parameters, and the high-priority notification scenario        *)

\* 'priority'
s_priority_key ==
    <<"p", "r", "i", "o", "r", "i", "t", "y">>

\* 'high'
s_high_value == <<"h", "i", "g", "h">>

\* 'task.priority'
s_scenario_field == s_task \o s_dot \o s_priority_key

\* 'High priority task created: {{task.title}}'
s_scenario_message ==
    <<"H", "i", "g", "h", " ", "p", "r", "i", "o", "r", "i", "t", "y", " ",
      "t", "a", "s", "k", " ", "c", "r", "e", "a", "t", "e", "d", ":", " ",
      "{", "{", "t", "a", "s", "k", ".", "t", "i", "t", "l", "e", "}", "}">>

\* { task: { priority: 'high' } }
scenarioContext == ObjV(s_task :> ObjV(s_priority_key :> StrV(s_high_value)))

scenarioRule ==
    Rule("high-priority-notification", "scenario", "task_created",
         <<Condition(s_scenario_field, "equals", StrV(s_high_value))>>,
         <<Action("send_notification", [message |-> StrV(s_scenario_message)])>>, TRUE)

\* two conditions, three actions
ruleTwo ==
    Rule("A", "two", "task_created",
         <<Condition(s_task_priority, "is_not_empty", Undefined),
           Condition(s_task_priority, "equals", StrV(s_low))>>,
         <<notifyOk, createNote, updateStatus>>, TRUE)

\* a trigger with parameters
ruleParams ==
    [Rule("B", "params", "task_completed", <<>>, <<notifyOk>>, TRUE)
        EXCEPT !.trigger = [type |-> "task_completed",
                            parameters |-> [project |-> StrV(s_path)]]]

\* an unimplemented action type and one the engine does not know, each
\* followed by a notification
sendEmail == Action("send_email", [to |-> StrV(s_path), subject |-> StrV(s_msg)])
archiveTask == Action("archive_task", EmptyMap)
ruleEmail ==
    Rule("B", "email", "task_completed", <<>>,
         <<sendEmail, notifyOk, archiveTask, notifyOk>>, TRUE)

KnownActionTypes ==
    {"send_notification", "create_task", "update_task", "create_note", "update_status"}

ScenarioPool == {scenarioRule, ruleTwo, ruleParams, ruleEmail}

ctxLow == ObjV(s_task :> ObjV(s_priority :> StrV(s_low)))

ScenarioEvents ==
    {<<"task_created", c>> : c \in {scenarioContext, ctxHigh, ctxLow, ctxNull}}
        \cup {<<"task_completed", ctxFile>>, <<"task_updated", ctxFile>>}

\* an event source dispatches one of the scenario events
TriggerScenario(d) ==
    /\ \E ev \in ScenarioEvents : StartDispatch(d, ev[1], ev[2])
    /\ EngineUnchanged
    /\ CallsUnchanged
    /\ ErrorLogUnchanged
    /\ SchedulerUnchanged

NextRules ==
    \/ \E rule \in ScenarioPool : AddRule(rule) /\ UNCHANGED replaced
    \/ \E ruleId \in {"A"} : DisableRule(ruleId)
    \/ \E enabled \in BOOLEAN : SetEnabled(enabled)
    \/ TriggerScenario("d1")
    \/ AfterConditions("d1")
    \/ AfterAction("d1")
    \/ AfterActions("d1")

SpecRules == Init /\ [][NextRules]_vars

-----------------------------------------------------------------------------
(* The shared ErrorHandler and the safeAsync / safeSync wrappers *)

maxLogSize == 100

\* the errors logged between two clearErrorLog calls
MaxErrors == 103

\* private showNotifications = true
showNotifications == TRUE

\* what an operation may throw: an Error, a ProjectManagerError, a string,
\* null, undefined (a promise rejected without a reason)
ErrV(isProjectManagerError) == [t |-> "error", pm |-> isProjectManagerError]

ThrownValues == {ErrV(FALSE), ErrV(TRUE), StrV(s_msg), Null, Undefined}

s_fallback == <<"f">>
s_value == <<"v">>

\* the operations handed to the wrappers: they return a value or throw
Operations ==
    {[returns |-> TRUE, value |-> StrV(s_value)]}
        \cup {[returns |-> FALSE, error |-> e] : e \in ThrownValues}

\* fallbackValue?: T
Fallbacks == {StrV(s_fallback), Undefined}

\* a call that ended by throwing
Raised(error) == [returned |-> FALSE, raised |-> error]

\* what handle ended with when it threw
s_TypeError == <<"T">>

\* logError: unshift, then slice(0, maxLogSize) when the log has grown past it
logError(log, errorDetails) ==
    LET longer == <<errorDetails>> \o log
    IN  IF Len(longer) > maxLogSize THEN SubSeq(longer, 1, maxLogSize) ELSE longer

\* handle(error, context): the log after the call, and whether the call
\* threw.  error.details or error.message is read first: a TypeError when
\* error is null or undefined.  Then logError, then new Notice, the
\* notification collaborator, which may fail.  An entry is identified by its
\* place in the order of logging (its timestamp), counted from the last
\* clearErrorLog on.
handle(log, serial, error, noticeFails) ==
    IF error.t \in {"null", "undefined"}
    THEN [log |-> log, threw |-> TRUE]
    ELSE [log |-> logError(log, serial), threw |-> showNotifications /\ noticeFails]

\* try { return operation() } catch (error) { handle(error); return fallbackValue }
\* (safeAsync awaits the operation inside the try block)
safeCall(operation, fallbackValue, handled) ==
    IF operation.returns THEN Returned(operation.value)
    ELSE IF handled.threw THEN Raised(StrV(s_TypeError))
         ELSE Returned(fallbackValue)

ErrorsOthersUnchanged ==
    /\ EngineUnchanged
    /\ DispatchUnchanged
    /\ SchedulerUnchanged

\* ErrorHandler.getInstance().handle(error) called directly
Handle(error, noticeFails) ==
    /\ errorCount < MaxErrors
    /\ LET handled == handle(errorLog, errorCount + 1, error, noticeFails)
       IN  /\ errorLog' = handled.log
           /\ errorCount' = IF handled.log = errorLog THEN errorCount ELSE errorCount + 1
           /\ call' = [fn |-> "handle", error |-> error]
           /\ result' = IF handled.threw THEN Raised(StrV(s_TypeError))
                                         ELSE Returned(Undefined)
    /\ ErrorsOthersUnchanged

Safe(fn, operation, fallbackValue, noticeFails) ==
    /\ errorCount < MaxErrors
    /\ LET handled ==
               IF operation.returns THEN [log |-> errorLog, threw |-> FALSE]
               ELSE handle(errorLog, errorCount + 1, operation.error, noticeFails)
       IN  /\ errorLog' = handled.log
           /\ errorCount' = IF handled.log = errorLog THEN errorCount ELSE errorCount + 1
           /\ call' = [fn |-> fn, operation |-> operation, fallbackValue |-> fallbackValue]
           /\ result' = safeCall(operation, fallbackValue, handled)
    /\ ErrorsOthersUnchanged

SafeSync(operation, fallbackValue, noticeFails) ==
    Safe("safeSync", operation, fallbackValue, noticeFails)

SafeAsync(operation, fallbackValue, noticeFails) ==
    Safe("safeAsync", operation, fallbackValue, noticeFails)

\* getErrorLog(): a copy of the log
getErrorLog == errorLog

ClearErrorLog ==
    /\ errorLog # <<>>
    /\ errorLog' = <<>>
    /\ errorCount' = 0
    /\ call' = [fn |-> "clearErrorLog"]
    /\ result' = Returned(Undefined)
    /\ ErrorsOthersUnchanged

NextErrors ==
    \/ \E error \in ThrownValues, noticeFails \in BOOLEAN : Handle(error, noticeFails)
    \/ \E operation \in Operations, fallbackValue \in Fallbacks, noticeFails \in BOOLEAN :
          SafeSync(operation, fallbackValue, noticeFails)
    \/ \E operation \in Operations, fallbackValue \in Fallbacks, noticeFails \in BOOLEAN :
          SafeAsync(operation, fallbackValue, noticeFails)
    \/ ClearErrorLog

SpecErrors == Init /\ [][NextErrors]_vars

-----------------------------------------------------------------------------
(* Properties *)

Started(d) == disp[d].pc # "idle"

\* the rules a call that started in the recorded state has to visit, in order
Selected(d) ==
    SelectSeq(startInfo[d].rules,
              LAMBDA rule : rule.enabled /\ rule.trigger.type = disp[d].triggerType)

Events(d, kind) == SelectSeq(trace[d], LAMBDA e : e.k = kind)

HasAction(d, rule, index, from) ==
    \E j \in (from + 1)..Len(trace[d]) :
        /\ trace[d][j].k = "action"
        /\ trace[d][j].rule = rule.id
        /\ trace[d][j].name = rule.name
        /\ trace[d][j].index = index

\* C1: a rule that is registered with enabled = false when a dispatch starts
\* has none of its conditions evaluated and none of its actions executed by
\* that dispatch, whatever its trigger type.
C1_DisabledRulesNeverRun ==
    \A d \in Slots : \A i \in 1..Len(trace[d]) :
        ~\E j \in 1..Len(startInfo[d].rules) :
            /\ startInfo[d].rules[j].id = trace[d][i].rule
            /\ ~startInfo[d].rules[j].enabled

\* a finished dispatch that ran something while a rule of its own trigger type,
\* switched off by disableRule, was registered
C1_Witness ==
    \E d \in Slots :
        /\ disp[d].pc = "done"
        /\ trace[d] # <<>>
        /\ \E j \in 1..Len(startInfo[d].rules) :
            /\ startInfo[d].rules[j].name = "a1"
            /\ ~startInfo[d].rules[j].enabled
            /\ startInfo[d].rules[j].trigger.type = disp[d].triggerType

\* C2: once an action of a matched rule has thrown, every later action of
\* that rule and every action of every later matched rule whose conditions
\* hold is executed by the same dispatch.
C2_ThrowingActionIsIsolated ==
    \A d \in Slots : Finished(d) =>
        \A i \in 1..Len(trace[d]) :
            (trace[d][i].k = "action" /\ trace[d][i].threw) =>
                \A p \in 1..Len(Selected(d)) :
                    LET rule == Selected(d)[p] IN
                    /\ (rule.id = trace[d][i].rule) =>
                          \A k \in (trace[d][i].index + 1)..Len(rule.actions) :
                              HasAction(d, rule, k, i)
                    /\ \A q \in (p + 1)..Len(Selected(d)) :
                          LET later == Selected(d)[q] IN
                          (/\ rule.id = trace[d][i].rule
                           /\ evaluateConditions(later.conditions, disp[d].context) = "true")
                              => \A k \in 1..Len(later.actions) : HasAction(d, later, k, i)

\* a finished dispatch in which an action threw, a later action of the same
\* rule ran, and an action of a later rule ran
C2_Witness ==
    \E d \in Slots :
        /\ Finished(d)
        /\ \E i, j, k \in 1..Len(trace[d]) :
            /\ i < j /\ j < k
            /\ trace[d][i].k = "action" /\ trace[d][i].threw
            /\ trace[d][j].k = "action" /\ trace[d][j].rule = trace[d][i].rule
            /\ trace[d][k].k = "action" /\ trace[d][k].rule # trace[d][i].rule

IdsAndNames(rs) == [i \in 1..Len(rs) |-> <<rs[i].id, rs[i].name>>]

EventRules(es) == [i \in 1..Len(es) |-> <<es[i].rule, es[i].name>>]

IsPrefix(a, b) == Len(a) <= Len(b) /\ SubSeq(b, 1, Len(a)) = a

\* C4: the rules a dispatch visits are those that were registered, enabled and
\* of its trigger type when it started, in that order, whatever addRule,
\* removeRule, enableRule and disableRule do while it is in flight; so a rule
\* that is disabled or absent when a dispatch starts is never executed by it.
C4_DispatchUsesStartSnapshot ==
    \A d \in Slots : (Started(d) /\ startInfo[d].enabled) =>
        /\ IsPrefix(EventRules(Events(d, "conditions")), IdsAndNames(Selected(d)))
        /\ Finished(d) =>
              EventRules(Events(d, "conditions")) = IdsAndNames(Selected(d))
        /\ \A i \in 1..Len(trace[d]) :
              \E p \in 1..Len(Selected(d)) :
                  /\ Selected(d)[p].id = trace[d][i].rule
                  /\ Selected(d)[p].name = trace[d][i].name

\* a dispatch executed an action of a rule that was, by then, disabled in or
\* removed from the registry
C4_Witness ==
    \E d \in Slots : \E i \in 1..Len(trace[d]) :
        /\ trace[d][i].k = "action"
        /\ ~trace[d][i].live
        /\ Finished(d)

\* C6: a dispatch that starts while the engine is globally disabled evaluates
\* and executes nothing, and isAutomationEnabled() is the value last stored
\* by the constructor or setEnabled.
C6_DisabledEngineIsNoOp ==
    /\ isAutomationEnabled = lastSetEnabled
    /\ \A d \in Slots : (Started(d) /\ ~startInfo[d].enabled) =>
          (trace[d] = <<>> /\ disp[d].pc = "done")

\* a dispatch returned at once although an enabled rule of its trigger type
\* was registered
C6_Witness ==
    \E d \in Slots :
        /\ Started(d)
        /\ ~startInfo[d].enabled
        /\ Selected(d) # <<>>

\* a call that has begun a rule invocation and has not finished its last action
MidRule(d) ==
    \/ /\ disp[d].pc = "awaitConditions"
       /\ disp[d].conditionsHold = "true"
       /\ disp[d].rule.actions # <<>>
    \/ disp[d].pc = "awaitAction"

\* the step evaluates conditions or executes an action in call e
Works(e) == trace[e]' # trace[e] /\ trace[e]' # <<>>

\* C5: while one dispatch is between the start of a rule's condition
\* evaluation and the end of that rule's last action, no other dispatch
\* evaluates a condition or executes an action.
C5_RuleInvocationsNeverInterleave ==
    [][\A d \in Slots : \A e \in Slots \ {d} : MidRule(d) => ~Works(e)]_vars

FirstDue(c) == (chains[c].armedAt \div Day + 1) * Day + TargetHour * TicksPerHour

IssuedBy(c) == SelectSeq(issued, LAMBDA f : f.chain = c)

\* the next occurrence of 09:00 strictly after the instant now
NextNine(now) ==
    IF now % Day < TargetHour * TicksPerHour
    THEN (now \div Day) * Day + TargetHour * TicksPerHour
    ELSE (now \div Day + 1) * Day + TargetHour * TicksPerHour

\* C7 as stated: the first daily_schedule fire of a scheduler is at the next
\* occurrence of 09:00 strictly after its start: today's 09:00 when it is
\* started before 09:00, tomorrow's otherwise.
C7_FirstFireAtNextNine ==
    \A c \in 1..Len(chains) :
        /\ IssuedBy(c) # <<>> => IssuedBy(c)[1].at = NextNine(chains[c].armedAt)
        /\ clock > NextNine(chains[c].armedAt) => IssuedBy(c) # <<>>

\* C7 as amended: the first daily_schedule fire of a scheduler is at 09:00 of
\* the calendar day after the day it was started on, at whatever time of that
\* day it was started; nothing is fired before.
C7_FirstFireAtNineNextDay ==
    \A c \in 1..Len(chains) :
        /\ IssuedBy(c) # <<>> =>
              /\ IssuedBy(c)[1].at % Day = TargetHour * TicksPerHour
              /\ IssuedBy(c)[1].at \div Day = chains[c].armedAt \div Day + 1
        /\ clock > FirstDue(c) => IssuedBy(c) # <<>>
        /\ clock < FirstDue(c) => IssuedBy(c) = <<>>

\* a scheduler started before 09:00 whose first fire came the next day
C7_Witness ==
    \E c \in 1..Len(chains) :
        /\ chains[c].armedAt % Day < TargetHour * TicksPerHour
        /\ IssuedBy(c) # <<>>
        /\ IssuedBy(c)[1].at = ((chains[c].armedAt \div Day) + 1) * Day + TargetHour * TicksPerHour

\* C8: a scheduler fires first at 09:00 of the day after its start and then
\* every 24 hours; each fire is one daily_schedule dispatch whose context has
\* the date of the fire, and the scheduler issues no dispatch in between.
C8_DailyFiresEvery24Hours ==
    \A c \in 1..Len(chains) :
        LET fires == IssuedBy(c) IN
        /\ \A k \in 1..Len(fires) :
              /\ fires[k].at = FirstDue(c) + (k - 1) * HoursPerDay * TicksPerHour
              /\ fires[k].triggerType = "daily_schedule"
              /\ fires[k].context = ObjV(s_date :> StrV(toISOString(fires[k].at))
                                         @@ s_type :> StrV(s_daily_check))
        /\ \A k \in 1..MaxDays + 1 :
              clock > FirstDue(c) + (k - 1) * HoursPerDay * TicksPerHour
                  => Len(fires) >= k
        /\ \A d \in SchedSlots : Started(d) =>
              /\ disp[d].triggerType = "daily_schedule"
              /\ issued # <<>>
              /\ disp[d].context = issued[Len(issued)].context

\* a scheduler started at 14:00 has fired at 09:00 of the next day and again
\* 24 hours later
C8_Witness ==
    \E c \in 1..Len(chains) :
        /\ chains[c].armedAt = 14 * TicksPerHour
        /\ Len(IssuedBy(c)) = 2
        /\ IssuedBy(c)[1].at = Day + TargetHour * TicksPerHour
        /\ IssuedBy(c)[2].at = 2 * Day + TargetHour * TicksPerHour

\* C9: right after addRule(r), getRule(r.id) is r; right after removeRule(id),
\* getRule(id) is undefined and getRules() holds no rule with that id.
C9_AddGetRemoveRoundTrip ==
    [][/\ \A r \in RulePool : AddRule(r) => getRule(rules', r.id) = r
       /\ \A id \in RuleIds \cup DefaultIds : RemoveRule(id) =>
             /\ getRule(rules', id) = Undefined
             /\ \A i \in 1..Len(getRules(rules')) : getRules(rules')[i].id # id]_vars

\* a rule has been added and removed again, while another added rule is
\* still returned by getRule
C9_Witness ==
    /\ lastSet["A"] # NoRule
    /\ getRule(rules, "A") = Undefined
    /\ lastSet["B"] # NoRule
    /\ getRule(rules, "B") = lastSet["B"]

WithoutFlag(rule) == [f \in DOMAIN rule \ {"enabled"} |-> rule[f]]

\* C10: the registry never holds two rules with one id, the rule registered
\* under an id is the one most recently set for it (its enabled flag apart,
\* which enableRule and disableRule change), and addRule of a registered id
\* replaces the rule, enabled flag included, without changing the number of
\* registered rules.
C10_LastAddWins ==
    /\ [](/\ \A i, j \in 1..Len(rules) : rules[i].key = rules[j].key => i = j
          /\ \A i \in 1..Len(rules) :
                /\ rules[i].value.id = rules[i].key
                /\ WithoutFlag(rules[i].value) = WithoutFlag(lastSet[rules[i].key]))
    /\ [][\A r \in RulePool : AddRule(r) =>
             /\ getRule(rules', r.id) = r
             /\ MapHas(rules, r.id) => Len(rules') = Len(rules)
             /\ Cardinality({i \in 1..Len(rules') : rules'[i].key = r.id}) = 1]_vars

\* addRule found id A registered, and the registry now holds the definition it
\* was given, disabled, next to the rule of id B
C10_Witness ==
    /\ replaced["A"]
    /\ getRule(rules, "A") = ruleA2
    /\ Len(rules) = 2

RegistryIds == RuleIds \cup {"high-priority-notification"}

MapKeys(m) == [i \in 1..Len(m) |-> m[i].key]

\* between two registries, nothing but the enabled flag of the rule under id differs
OnlyFlagOf(id, before, after) ==
    /\ MapKeys(after) = MapKeys(before)
    /\ \A i \in 1..Len(before) :
          IF before[i].key = id
          THEN WithoutFlag(after[i].value) = WithoutFlag(before[i].value)
          ELSE after[i] = before[i]

\* C11: enableRule(id) and disableRule(id) change nothing but the enabled flag
\* of the rule registered under id (its other fields, every other rule and the
\* registered ids, in their order, stay); with an unregistered id, enableRule,
\* disableRule and removeRule leave the registry as it was and create no rule.
C11_EnableDisableTouchOnlyTheFlag ==
    [][\A id \in RegistryIds :
          /\ (EnableRule(id) \/ DisableRule(id)) =>
                IF MapHas(rules, id) THEN OnlyFlagOf(id, rules, rules') ELSE rules' = rules
          /\ (RemoveRule(id) /\ ~MapHas(rules, id)) => rules' = rules]_vars

\* rule A is registered with a flag other than the one it was last set with
\* (enableRule or disableRule has acted on it), rule B is registered next to it
\* and a third id is not registered
C11_Witness ==
    /\ MapHas(rules, "A")
    /\ lastSet["A"] # NoRule
    /\ getRule(rules, "A").enabled # lastSet["A"].enabled
    /\ WithoutFlag(getRule(rules, "A")) = WithoutFlag(lastSet["A"])
    /\ MapHas(rules, "B")
    /\ ~MapHas(rules, "high-priority-notification")

\* the value reached by descending the mapping key by key, undefined as soon as
\* a key is missing or the value at hand is not a mapping
RECURSIVE NestedLookup(_, _)
NestedLookup(value, keys) ==
    IF keys = <<>> THEN value
    ELSE IF value.t = "object" /\ Head(keys) \in DOMAIN value.m
         THEN NestedLookup(value.m[Head(keys)], Tail(keys))
         ELSE Undefined

\* C19: for every context and dotted path, getFieldValue returns the value
\* reached by descending the context key by key, and undefined as soon as a
\* key is missing, also below null and below a scalar.
C19_ResolutionIsNestedLookup ==
    (call.fn = "getFieldValue" /\ result.returned) =>
        result.value = NestedLookup(call.context, call.keys)

\* C12: is_empty is true when the field path is missing from the context, at
\* any depth, and when the field value is the empty string; it is false when
\* the field value is a non-empty string or a non-empty object; the
\* condition's literal value plays no part.
C12_IsEmptyOfMissingAndEmpty ==
    (call.fn = "evaluateConditions" /\ result.returned
        /\ call.conditions[1].operator = "is_empty") =>
        LET value == NestedLookup(call.context, call.keys)
        IN  /\ value \in {Undefined, StrV(<<>>)} => result.value = "true"
            /\ (value.t = "string" /\ value.s # <<>>) => result.value = "false"
            /\ (value.t = "object" /\ DOMAIN value.m # {}) => result.value = "false"

\* C13: greater_than and less_than are false whenever the field value or the
\* literal is not a number (string, boolean, object, null or missing), and no
\* exception is raised; when both are numbers the result is field > literal,
\* respectively field < literal.
C13_ComparisonsNeedTwoNumbers ==
    /\ (call.fn = "evaluateCondition" /\ result.returned
            /\ call.operator \in {"greater_than", "less_than"}) =>
          IF call.fieldValue.t = "number" /\ call.conditionValue.t = "number"
          THEN result.value = IF call.operator = "greater_than"
                              THEN call.fieldValue.n > call.conditionValue.n
                              ELSE call.fieldValue.n < call.conditionValue.n
          ELSE result.value = FALSE
    /\ (call.fn = "evaluateConditions" /\ result.returned
            /\ call.conditions[1].operator \in {"greater_than", "less_than"}) =>
          /\ result.value # "throw"
          /\ call.conditions[1].value.t # "number" => result.value = "false"

\* true was compared with the number 0 by greater_than, and the call returned
C13_Witness ==
    /\ call.fn = "evaluateCondition"
    /\ call.operator = "greater_than"
    /\ call.fieldValue = BoolV(TRUE)
    /\ call.conditionValue = NumV(0)
    /\ result.returned

\* sub occurs in s as a run of consecutive characters
IsSubstring(sub, s) == \E i, j \in 0..Len(s) : i <= j /\ SubSeq(s, i + 1, j) = sub

\* C20: the condition evaluator returns a boolean, without raising, for every
\* field value (undefined and null included), literal and operator string; an
\* operator outside the seven known ones yields false; contains yields true
\* only when both sides are strings and the literal is a substring of the
\* field value.
C20_EvaluatorIsTotal ==
    /\ (call.fn = "evaluateCondition" /\ result.returned) =>
          /\ result.value \in BOOLEAN
          /\ call.operator \notin KnownOperators => result.value = FALSE
          /\ (call.operator = "contains" /\ result.value) =>
                /\ call.fieldValue.t = "string"
                /\ call.conditionValue.t = "string"
                /\ IsSubstring(call.conditionValue.s, call.fieldValue.s)
    /\ (call.fn = "evaluateConditions" /\ result.returned) =>
          /\ result.value \in {"true", "false"}
          /\ call.conditions[1].operator \notin KnownOperators => result.value = "false"

\* an operator the evaluator does not know was applied to an undefined field
\* value and a null literal, and the call returned
C20_Witness ==
    /\ call.fn = "evaluateCondition"
    /\ call.operator = "matches"
    /\ call.fieldValue = Undefined
    /\ call.conditionValue = Null
    /\ result.returned

\* what a piece of a template becomes: text stays, a token becomes the string
\* form of the value its path resolves to, or stays when that is undefined
Interpolated(piece, context) ==
    IF piece.k = "text" THEN piece.s
    ELSE LET value == getFieldValue(context, Join(piece.keys, s_dot))
         IN  IF value # Undefined THEN StringOf(value) ELSE Render(piece)

\* the text ends inside '{{ ...': it holds a '{{' that no '}' follows, so the
\* token that starts there runs on into what comes next
OpensToken(text) ==
    \E i \in 1..(Len(text) - 1) :
        /\ text[i] = "{"
        /\ text[i + 1] = "{"
        /\ \A j \in (i + 2)..Len(text) : text[j] # "}"

HasClose(text) == \E i \in 1..Len(text) : text[i] = "}"

\* The result expected, piece by piece.  open tells that a '{{' is open: the
\* token then runs from that '{{' to the next '}}', its path is no path of the
\* context, and it stays verbatim together with the piece that closes it.
RECURSIVE InterpolatedAll(_, _, _)
InterpolatedAll(pieces, context, open) ==
    IF pieces = <<>> THEN <<>>
    ELSE LET piece == Head(pieces)
         IN  IF piece.k = "text"
             THEN piece.s \o InterpolatedAll(Tail(pieces), context,
                                 IF HasClose(piece.s) THEN OpensToken(piece.s)
                                 ELSE open \/ OpensToken(piece.s))
             ELSE (IF open THEN Render(piece) ELSE Interpolated(piece, context))
                      \o InterpolatedAll(Tail(pieces), context, FALSE)

\* C14: interpolateString replaces every {{path}} token whose trimmed dotted
\* path resolves by the string form of the value, several tokens and repeated
\* paths included; a token whose path resolves to undefined stays verbatim,
\* text outside tokens is unchanged, and a template without a token is
\* returned as it is.
C14_InterpolationReplacesResolvedTokens ==
    (call.fn = "interpolateString" /\ result.returned) =>
        /\ result.value = InterpolatedAll(call.pieces, call.context, FALSE)
        /\ (\A i \in 1..Len(call.pieces) : call.pieces[i].k = "text") =>
                result.value = call.template

\* a template of three tokens was interpolated: the title, padded with blanks,
\* twice, around a path that does not resolve
C14_Witness ==
    /\ call.fn = "interpolateString"
    /\ call.pieces = <<Token(<<s_task, s_title>>, 1, 2), Token(<<s_missing, s_path>>, 0, 0),
                       Token(<<s_task, s_title>>, 1, 2)>>
    /\ call.context = ctxFull
    /\ result.returned
    /\ result.value = <<"T">> \o Render(Token(<<s_missing, s_path>>, 0, 0)) \o <<"T">>

\* the messages the events es handed to new Notice, in order
RECURSIVE NoticesIn(_)
NoticesIn(es) == IF es = <<>> THEN <<>> ELSE Head(es).notices \o NoticesIn(Tail(es))

Notices(d) == NoticesIn(Events(d, "action"))

NoticesOf(d, ruleId) ==
    NoticesIn(SelectSeq(trace[d], LAMBDA e : e.k = "action" /\ e.rule = ruleId))

\* C15: with the enabled rule {task_created; task.priority equals 'high';
\* send_notification 'High priority task created: {{task.title}}'}
\* registered, a dispatch of task_created with the context
\* {task: {priority: 'high'}} hands exactly one message to new Notice, and
\* its text is the template with the token left as it is.
C15_HighPriorityScenarioNotifiesOnce ==
    \A d \in Slots :
        (/\ Finished(d)
         /\ startInfo[d].enabled
         /\ disp[d].triggerType = "task_created"
         /\ disp[d].context = scenarioContext
         /\ \E i \in 1..Len(startInfo[d].rules) : startInfo[d].rules[i] = scenarioRule) =>
            /\ NoticesOf(d, scenarioRule.id) = <<s_scenario_message>>
            /\ startInfo[d].rules = <<scenarioRule>> => Notices(d) = <<s_scenario_message>>

\* the scenario has run to its end with the scenario rule alone in the
\* registry, and the template was handed to new Notice as its one message
C15_Witness ==
    /\ Finished("d1")
    /\ startInfo["d1"].enabled
    /\ startInfo["d1"].rules = <<scenarioRule>>
    /\ disp["d1"].triggerType = "task_created"
    /\ disp["d1"].context = scenarioContext
    /\ Notices("d1") = <<s_scenario_message>>

\* the rule, as it was when the dispatch started, that the event e is about
RuleOf(d, e) ==
    LET rs == Selected(d) IN rs[CHOOSE p \in 1..Len(rs) : rs[p].id = e.rule]

\* does condition k of rule hold in the context?
Holds(rule, k, context) ==
    evaluateCondition(getFieldValue(context, rule.conditions[k].field),
                      rule.conditions[k].operator, rule.conditions[k].value)

\* C16: a matched rule's actions are executed if and only if every condition
\* of its list holds; a rule with no condition has its actions executed;
\* evaluation stops at the first condition that is false: no later condition
\* of the rule is evaluated and none of its actions runs.
C16_ConditionsAreShortCircuitAnd ==
    \A d \in Slots : \A i \in 1..Len(trace[d]) :
        trace[d][i].k = "conditions" =>
            LET e == trace[d][i]
                rule == RuleOf(d, e)
                n == Len(rule.conditions)
                allHold == \A k \in 1..n : Holds(rule, k, disp[d].context)
            IN  /\ e.result = IF allHold THEN "true" ELSE "false"
                /\ e.evaluated =
                      IF allHold THEN n
                      ELSE CHOOSE k \in 1..n :
                              /\ ~Holds(rule, k, disp[d].context)
                              /\ \A m \in 1..(k - 1) : Holds(rule, m, disp[d].context)
                /\ ~allHold => \A k \in 1..Len(rule.actions) : ~HasAction(d, rule, k, 0)
                /\ (allHold /\ Finished(d)) =>
                      \A k \in 1..Len(rule.actions) : HasAction(d, rule, k, i)

\* a finished dispatch in which the rule with two conditions stopped at its
\* first condition and ran no action, and the rule registered after it was
\* evaluated in its turn
C16_Witness ==
    /\ Finished("d1")
    /\ disp["d1"].context = ctxNull
    /\ \E i, j \in 1..Len(trace["d1"]) :
          /\ i < j
          /\ trace["d1"][i].k = "conditions"
          /\ trace["d1"][i].name = ruleTwo.name
          /\ trace["d1"][i].evaluated = 1
          /\ trace["d1"][j].k = "conditions"
    /\ \A k \in 1..Len(ruleTwo.actions) : ~HasAction("d1", ruleTwo, k, 0)

\* what an event is about: the rule, and the action's position (0 for the
\* evaluation of the conditions)
Step(kind, rule, index) == [k |-> kind, rule |-> rule.id, name |-> rule.name, index |-> index]

StepsOf(es) ==
    [i \in 1..Len(es) |->
        [k |-> es[i].k, rule |-> es[i].rule, name |-> es[i].name,
         index |-> IF es[i].k = "action" THEN es[i].index ELSE 0]]

\* the steps of a dispatch over the rules rs in sequential order: rule after
\* rule, the conditions first, then the actions in their declared order
RECURSIVE StepsInOrder(_, _)
StepsInOrder(rs, context) ==
    IF rs = <<>> THEN <<>>
    ELSE LET rule == Head(rs)
         IN  <<Step("conditions", rule, 0)>>
                 \o (IF \A k \in 1..Len(rule.conditions) : Holds(rule, k, context)
                     THEN [k \in 1..Len(rule.actions) |-> Step("action", rule, k)]
                     ELSE <<>>)
                 \o StepsInOrder(Tail(rs), context)

\* C17: within one dispatch the actions of a matched rule are executed one at
\* a time in their declared order (action i+1 starts only once the await of
\* action i has resumed, fulfilled or rejected), the matched rules are
\* processed in registry iteration order, and the conditions of the next rule
\* are evaluated only after the last action of the previous rule has finished.
C17_SequentialInDeclaredOrder ==
    /\ [](\A d \in Slots : (Started(d) /\ startInfo[d].enabled) =>
            /\ IsPrefix(StepsOf(trace[d]), StepsInOrder(Selected(d), disp[d].context))
            /\ Finished(d) =>
                  StepsOf(trace[d]) = StepsInOrder(Selected(d), disp[d].context))
    /\ [][\A d \in Slots : (InFlight(d) /\ trace[d]' # trace[d]) =>
            LET new == trace[d]'[Len(trace[d]')] IN
            /\ trace[d]' = Append(trace[d], new)
            /\ (new.k = "action" /\ new.index > 1) =>
                  /\ disp[d].pc = "awaitAction"
                  /\ disp[d].actionIndex = new.index - 1
                  /\ disp[d].rule.id = new.rule
            /\ (new.k = "action" /\ new.index = 1) =>
                  /\ disp[d].pc = "awaitConditions"
                  /\ disp[d].rule.id = new.rule
            /\ new.k = "conditions" =>
                  \/ disp[d].pc = "awaitActions"
                  \/ disp[d].pc = "awaitConditions" /\ disp[d].conditionsHold = "false"]_vars

\* a finished dispatch over two matched rules: the three actions of the first
\* ran in order, then the conditions of the second were evaluated
C17_Witness ==
    /\ Finished("d1")
    /\ disp["d1"].context = ctxLow
    /\ startInfo["d1"].rules = <<ruleTwo, scenarioRule>>
    /\ StepsOf(trace["d1"]) =
          <<Step("conditions", ruleTwo, 0), Step("action", ruleTwo, 1),
            Step("action", ruleTwo, 2), Step("action", ruleTwo, 3),
            Step("conditions", scenarioRule, 0)>>

\* C18: a dispatch with trigger type T evaluates and executes only rules whose
\* trigger.type is T; trigger parameters play no part in the match; a dispatch
\* whose type no registered rule carries ('task_updated', which the host sends
\* on every file modification) evaluates no condition and executes no action.
C18_OnlyRulesOfTheTriggerType ==
    \A d \in Slots :
        LET rs == startInfo[d].rules IN
        /\ \A i \in 1..Len(trace[d]) :
              \E p \in 1..Len(rs) :
                  /\ rs[p].id = trace[d][i].rule
                  /\ rs[p].trigger.type = disp[d].triggerType
        /\ (\A p \in 1..Len(rs) : rs[p].trigger.type # disp[d].triggerType) =>
              trace[d] = <<>>
        /\ (Finished(d) /\ startInfo[d].enabled) =>
              \A p \in 1..Len(rs) :
                  (/\ "parameters" \in DOMAIN rs[p].trigger
                   /\ rs[p].enabled
                   /\ rs[p].trigger.type = disp[d].triggerType) =>
                      \A k \in 1..Len(rs[p].actions) : HasAction(d, rs[p], k, 0)

\* a dispatch of 'task_updated' has finished without an event although the
\* engine was enabled and three enabled rules were registered
C18_Witness ==
    /\ Finished("d1")
    /\ disp["d1"].triggerType = "task_updated"
    /\ startInfo["d1"].enabled
    /\ Len(startInfo["d1"].rules) = 3
    /\ \A p \in 1..3 : startInfo["d1"].rules[p].enabled
    /\ trace["d1"] = <<>>

\* the steps of triggerAutomation calls
DispatchStep == disp' # disp

\* C21: a dispatch only reads: the context it was passed is the same when it
\* completes, and none of its steps changes the registered ids, any rule's
\* enabled flag, trigger, conditions or actions, or the engine's enabled flag.
C21_DispatchOnlyReads ==
    /\ [](\A d \in Slots : Started(d) => disp[d].context = startInfo[d].context)
    /\ [][DispatchStep => (rules' = rules /\ isEnabled' = isEnabled)]_vars

\* a finished dispatch that executed an update_status action and a
\* create_note action, over a registry of two rules
C21_Witness ==
    /\ Finished("d1")
    /\ \E i, j \in 1..Len(trace["d1"]) :
          /\ trace["d1"][i].k = "action" /\ trace["d1"][i].type = "update_status"
          /\ trace["d1"][j].k = "action" /\ trace["d1"][j].type = "create_note"
    /\ disp["d1"].context = startInfo["d1"].context
    /\ Len(rules) = 2

\* C29: is_empty and is_not_empty are mutually exclusive: a field value for
\* which evaluateCondition returned true under is_empty, whether undefined,
\* null, a string, a number (0 included), a boolean (false included) or an
\* object, does not evaluate to true under is_not_empty.
C29_EmptyAndNotEmptyExclude ==
    (/\ call.fn = "evaluateCondition"
     /\ call.operator = "is_empty"
     /\ result.returned
     /\ result.value) =>
        ~evaluateCondition(call.fieldValue, "is_not_empty", call.conditionValue)

\* the registry holds the three default rules, each enabled
DefaultsLoaded(registry) ==
    \A id \in DefaultIds : MapHas(registry, id) /\ MapGet(registry, id).enabled

\* C23: the registry is empty when the engine is constructed, and when
\* initialize() has completed it holds the three default rules, each enabled,
\* whichever value of the enableAutomation setting the engine was built with.
C23_InitializeLoadsDefaults ==
    /\ rules = <<>>
    /\ [][Initialize => DefaultsLoaded(rules')]_vars

\* a timer of the daily schedule is pending
SchedulerArmed == timers # <<>>

\* C26: whenever initialize() has been called and the engine is enabled, the
\* daily scheduler is armed and the default rules are loaded, also when the
\* engine was constructed disabled, initialized and then switched on with
\* setEnabled(true).
C26_EnabledAfterInitializeIsArmed ==
    (initialized /\ isEnabled) => (SchedulerArmed /\ DefaultsLoaded(rules))

\* C25: the global enabled flag is read only when a dispatch starts.  A
\* dispatch that started while the engine was enabled evaluates and executes
\* all its matched rules and actions whatever setEnabled stores while it is in
\* flight; one that started while the engine was disabled executes nothing,
\* whatever setEnabled stores afterwards; and a setEnabled call changes no
\* dispatch in flight.
C25_FlagReadOnlyAtStart ==
    /\ [](\A d \in Slots :
            /\ (Finished(d) /\ startInfo[d].enabled) =>
                  /\ disp[d].pc = "done"
                  /\ StepsOf(trace[d]) = StepsInOrder(Selected(d), startInfo[d].context)
            /\ (Started(d) /\ ~startInfo[d].enabled) => StepsOf(trace[d]) = <<>>)
    /\ [][isEnabled' # isEnabled => (disp' = disp /\ trace' = trace)]_vars

\* the engine has been switched off while a dispatch that started enabled is
\* in flight with an action executed and a rule still to visit
C25_Witness ==
    /\ InFlight("d1")
    /\ startInfo["d1"].enabled
    /\ ~isEnabled
    /\ Events("d1", "action") # <<>>
    /\ disp["d1"].pending # <<>>

\* C22: an action of a type executeAction does not know, send_email
\* included, hands nothing to the notification sink or to the document
\* store, leaves the context as it is, raises nothing, and does not stop the
\* rule: every later action of the same rule is executed by the time the
\* dispatch finishes.
C22_UnknownActionIsSkipped ==
    \A d \in Slots : \A i \in 1..Len(trace[d]) :
        LET e == trace[d][i] IN
        (e.k = "action" /\ e.type \notin KnownActionTypes) =>
            /\ e.notices = <<>>
            /\ e.created = <<>>
            /\ ~e.threw
            /\ disp[d].context = startInfo[d].context
            /\ disp[d].pc # "threw"
            /\ Finished(d) =>
                  \A k \in (e.index + 1)..Len(RuleOf(d, e).actions) :
                      \E j \in (i + 1)..Len(trace[d]) :
                          /\ trace[d][j].k = "action"
                          /\ trace[d][j].rule = e.rule
                          /\ trace[d][j].index = k

\* a finished dispatch that ran a send_email action, an action of unknown
\* type, and a notification after each
C22_Witness ==
    /\ Finished("d1")
    /\ \E i, j, k, l \in 1..Len(trace["d1"]) :
          /\ i < j /\ j < k /\ k < l
          /\ trace["d1"][i].k = "action" /\ trace["d1"][i].type = "send_email"
          /\ trace["d1"][j].k = "action" /\ trace["d1"][j].notices # <<>>
          /\ trace["d1"][k].k = "action" /\ trace["d1"][k].type = "archive_task"
          /\ trace["d1"][l].k = "action" /\ trace["d1"][l].notices # <<>>

C27_AtMostOneTimerChain ==
    /\ Len(chains) <= 1
    /\ Len(timers) <= 1
    /\ \A i, j \in 1..Len(issued) : issued[i].at = issued[j].at => i = j

\* a daily_schedule dispatch was issued by a timer at the present instant
Fired == issued # <<>>

\* C24: once armed, the scheduler is perpetual: every armed state is followed
\* by a fire and every fire by an armed state in which the next fire is still
\* to come, so it fires infinitely often; an armed scheduler has no terminal
\* state; and no step (a dispatch that fails or does nothing, setEnabled,
\* addRule, removeRule) leaves it without a pending timer.
C24_SchedulerIsPerpetual ==
    /\ SchedulerArmed ~> Fired
    /\ Fired ~> (SchedulerArmed /\ ~Fired)
    /\ [](Fired => SchedulerArmed)
    /\ [](SchedulerArmed => ENABLED <<NextPerpetual>>_vars)
    /\ [][SchedulerArmed => (timers' # <<>>)]_vars

\* the interval timer has fired on an engine switched off, whose dispatch
\* did nothing, with a failing rule registered, and the next fire is armed
\* 24 hours ahead
C24_Witness ==
    /\ Fired
    /\ ~isEnabled
    /\ Started("d1") /\ ~startInfo["d1"].enabled
    /\ MapHas(rules, "A")
    /\ Len(timers) = 1
    /\ timers[1].kind = "interval"
    /\ timers[1].due = clock + HoursPerDay * TicksPerHour

\* the log holds at most maxLogSize entries, the newest first, and they are
\* the latest of those logged since the log was last cleared
LogIsBoundedNewestFirst ==
    /\ Len(getErrorLog) <= maxLogSize
    /\ \A i \in 1..Len(getErrorLog) : getErrorLog[i] = errorCount - (i - 1)

\* C30: after any sequence of handle calls (direct or through safeAsync and
\* safeSync) and clearErrorLog calls, the error log holds at most 100
\* entries, newest first, the oldest being the ones discarded; and a
\* safeAsync or safeSync call whose operation throws raises nothing and
\* returns the fallback value.
C30_LogBoundedAndWrappersNeverThrow ==
    /\ LogIsBoundedNewestFirst
    /\ (call.fn \in {"safeSync", "safeAsync"} /\ ~call.operation.returns) =>
          result = Returned(call.fallbackValue)

====
